---- MODULE Spec2Model ----
(***************************************************************************)
(* The task planner of scheduler/planner.go: PrepareTasksForPlanning      *)
(* fills a UnitCache in two passes, UnitCache.Export walks the cache map  *)
(* into a TaskPlan, and TaskPlan.Export sorts the units by RankValue and  *)
(* flattens them into the dispatch sequence.                              *)
(*                                                                         *)
(* Go strings (task ids, versions, task group names, cache keys, unit     *)
(* ids) are sequences of character codes, so that concatenation and the   *)
(* lexicographic order of sort.StringSlice are what they are in the code. *)
(* Units live in an arena (the sequence units); a *Unit is an index into  *)
(* it, so two cache keys can name the same unit object.                   *)
(* Durations are whole minutes; "now" is fixed during one planning call.  *)
(***************************************************************************)
EXTENDS Integers, Sequences, FiniteSets, TLC

VARIABLES
    distro,      \* the distro's PlannerSettings (the *distro.Distro argument, never nil)
    tasks,       \* the []task.Task argument
    pc,          \* position in PrepareTasksForPlanning / TaskPlan.Export
    i,           \* index of the next task of the running pass
    units,       \* arena of Unit objects
    cache,       \* UnitCache: key -> index of the unit
    walked,      \* keys UnitCache.Export's range loop has visited
    seenUnits,   \* StringSet seen of UnitCache.Export
    tpl,         \* TaskPlan: sequence of unit indices
    k,           \* index of the next unit TaskPlan.Export flattens
    seen,        \* StringSet seen of TaskPlan.Export
    output,      \* []task.Task output of TaskPlan.Export
    source,      \* history: source[p] is the unit output[p] was emitted from
    calls,       \* number of the running planning call
    prevOutput   \* output of the previous planning call with the same inputs

vars == <<distro, tasks, pc, i, units, cache, walked, seenUnits, tpl, k, seen,
          output, source, calls, prevOutput>>

-----------------------------------------------------------------------------
(* Bounds of the model *)

MaxTasks == 2

MaxCalls == 2

-----------------------------------------------------------------------------
(* Strings *)

EmptyString == <<>>

\* lexicographic order of Go strings, as sort.StringSlice.Less compares them
RECURSIVE StringLess(_, _)
StringLess(a, b) ==
    IF b = <<>> THEN FALSE
    ELSE IF a = <<>> THEN TRUE
    ELSE IF a[1] # b[1] THEN a[1] < b[1]
    ELSE StringLess(Tail(a), Tail(b))

\* sort.Sort(ids) of a set of distinct strings
RECURSIVE SortStrings(_)
SortStrings(S) ==
    IF S = {} THEN <<>>
    ELSE LET m == CHOOSE x \in S : \A y \in S \ {x} : StringLess(x, y)
         IN <<m>> \o SortStrings(S \ {m})

\* io.WriteString(hash, id) for every id in order: the bytes the hash is fed
RECURSIVE WriteStrings(_)
WriteStrings(ids) ==
    IF ids = <<>> THEN <<>> ELSE Head(ids) \o WriteStrings(Tail(ids))

\* fmt.Sprintf("%x", sha1(input)): SHA-1 is taken to be injective, and a
\* 40 digit hex string is never "", which the leading marker 0 stands for
Sha1Hex(input) == <<0>> \o input

-----------------------------------------------------------------------------
(* Values the planner reads from other packages *)

NilDistro == "nil"
TheDistro == "distro"

PatchRequesters == {"patch_request", "github_pull_request"}
IsPatchRequester(r) == r \in PatchRequesters
IsCommitQueueRequester(r) == r = "merge_test"
IsGithubMergeQueueRequester(r) == r = "github_merge_request"
StepbackTaskActivator == "stepback"

\* the composite task group key: group name, (build variant, project,) version
GetTaskGroupString(t) == t.TaskGroup \o <<0>> \o t.Version

\* time.Since(ts) in minutes; a zero time.Time is <<>>, a set one is <<minutes>>
IsZero(ts) == ts = <<>>
Since(ts) == ts[1]

-----------------------------------------------------------------------------
(* Unit *)

MakeUnit(d) == [tasks |-> << >>, cachedValue |-> 0, id |-> EmptyString, distro |-> d]


\* a map store that keeps the stored task when the id is present
MapPutKeepFirst(m, t) ==
    [id \in (DOMAIN m) \cup {t.Id} |-> IF id \in DOMAIN m THEN m[id] ELSE t]

\* unit.tasks[t.Id] = t on a map id -> task
MapPut(m, t) ==
    [id \in (DOMAIN m) \cup {t.Id} |-> IF id = t.Id THEN t ELSE m[id]]

UnitAdd(unit, t) == [unit EXCEPT !.tasks = MapPut(@, t)]


\* NewUnit without the Add: an empty container
NewUnitEmpty(t) == MakeUnit(NilDistro)

NewUnit(t) == UnitAdd(MakeUnit(NilDistro), t)

SetDistro(unit, d) == IF d = NilDistro THEN unit ELSE [unit EXCEPT !.distro = d]

Keys(unit) == DOMAIN unit.tasks

\* the id ID() returns: the memoized one, or the hash of the sorted task ids
UnitID(unit) ==
    IF unit.id # EmptyString THEN unit.id
    ELSE Sha1Hex(WriteStrings(SortStrings(Keys(unit))))

-----------------------------------------------------------------------------
(* Scoring: Unit.info, unitInfo.value, Unit.RankValue *)

CommitQueueBoost == 200

\* 7*24 hours, in minutes
WeekMinutes == 10080

\* Go's integer division truncates toward zero
TruncDiv(a, b) == IF a >= 0 THEN a \div b ELSE -((-a) \div b)

\* math.Floor(a / float64(b)) for b > 0
FloorDiv(a, b) == a \div b

RECURSIVE SumOver(_, _)
SumOver(m, f) ==
    IF DOMAIN m = {} THEN 0
    ELSE LET id == CHOOSE x \in DOMAIN m : TRUE
         IN f[m[id]] + SumOver([x \in (DOMAIN m) \ {id} |-> m[x]], f)

\* what one task adds to info.TimeInQueue
TaskTimeInQueue(t) ==
    IF ~IsZero(t.ActivatedTime) THEN Since(t.ActivatedTime)
    ELSE IF ~IsZero(t.IngestTime) THEN Since(t.IngestTime)
    ELSE 0

\* the requester branch of the loop body of info: a commit queue or merge
\* queue task sets ContainsInCommitQueue, otherwise a patch task sets
\* ContainsInPatch
TaskInCommitQueue(t) ==
    IsCommitQueueRequester(t.Requester) \/ IsGithubMergeQueueRequester(t.Requester)

TaskInPatch(t) == ~TaskInCommitQueue(t) /\ IsPatchRequester(t.Requester)

Info(unit, settings) ==
    LET m == unit.tasks
        T == {m[id] : id \in DOMAIN m}
    IN [TaskIDs               |-> DOMAIN m,
        Settings              |-> settings,
        ExpectedRuntime       |-> SumOver(m, [t \in T |-> t.ExpectedDuration]),
        TimeInQueue           |-> SumOver(m, [t \in T |-> TaskTimeInQueue(t)]),
        TotalPriority         |-> SumOver(m, [t \in T |-> t.Priority]),
        NumDeps               |-> SumOver(m, [t \in T |-> t.NumDependents]),
        ContainsInCommitQueue |-> \E t \in T : TaskInCommitQueue(t),
        ContainsInPatch       |-> \E t \in T : TaskInPatch(t),
        ContainsNonGroupTasks |-> \E t \in T : t.TaskGroup = EmptyString,
        ContainsGenerateTask  |-> \E t \in T : t.GenerateTask,
        ContainsStepbackTask  |-> \E t \in T : t.ActivatedBy = StepbackTaskActivator]


\* the provenance branch with the patch branch blind to the time in queue
ProvenanceBranchNoAge(u, priority, length) ==
    IF u.ContainsInPatch THEN <<priority, priority * u.Settings.PatchFactor>>
    ELSE IF u.ContainsInCommitQueue THEN
        <<priority + CommitQueueBoost,
          (priority + CommitQueueBoost) * u.Settings.CommitQueueFactor>>
    ELSE <<priority, 0>>

\* the provenance branch of value: <<priority after the branch, value after it>>
ProvenanceBranch(u, priority, length) ==
    IF u.ContainsInPatch THEN
        <<priority,
          priority * u.Settings.PatchFactor
          + priority * u.Settings.PatchTimeInQueueFactor * FloorDiv(u.TimeInQueue, length)>>
    ELSE IF u.ContainsInCommitQueue THEN
        <<priority + CommitQueueBoost,
          (priority + CommitQueueBoost) * u.Settings.CommitQueueFactor>>
    ELSE
        LET fresh == IF u.TimeInQueue < WeekMinutes * length
                     THEN u.Settings.MainlineTimeInQueueFactor
                          * ((WeekMinutes * length - u.TimeInQueue) \div (60 * length))
                     ELSE 0
            mainlinePriority ==
                fresh + (IF u.ContainsStepbackTask THEN u.Settings.StepbackTaskFactor ELSE 0)
        IN <<priority, priority * mainlinePriority>>

Value(u) ==
    LET length == Cardinality(u.TaskIDs)
        p0 == 1 + TruncDiv(u.TotalPriority, length)
        p1 == IF ~u.ContainsNonGroupTasks THEN p0 + length ELSE p0
        p2 == IF u.ContainsGenerateTask THEN p1 * u.Settings.GenerateTaskFactor ELSE p1
        br == ProvenanceBranch(u, p2, length)
        priority == br[1]
    IN br[2]
       + length
       + priority
       + priority * TruncDiv(u.NumDeps, length)
       + priority * u.Settings.ExpectedRuntimeFactor * FloorDiv(u.ExpectedRuntime, length)

\* the value RankValue returns: the memoized one when it is > 0
RankValue(unit, settings) ==
    IF unit.cachedValue > 0 THEN unit.cachedValue ELSE Value(Info(unit, settings))


\* RankValue storing a value that is off by one
RankedOff(unit, settings) == [unit EXCEPT !.cachedValue = RankValue(unit, settings) + 1]

\* RankValue's effect on the unit: the value is stored
Ranked(unit, settings) == [unit EXCEPT !.cachedValue = RankValue(unit, settings)]


-----------------------------------------------------------------------------
(* TaskList and TaskPlan orderings; sort.Sort *)

\* TaskList.Less with the TaskGroupOrder comparison turned around
TaskListLessDescendingOrder(t1, t2) ==
    IF t1.TaskGroupOrder # t2.TaskGroupOrder THEN t1.TaskGroupOrder > t2.TaskGroupOrder
    ELSE IF t1.NumDependents # t2.NumDependents THEN t1.NumDependents > t2.NumDependents
    ELSE IF t1.Priority # t2.Priority THEN t1.Priority > t2.Priority
    ELSE t1.ExpectedDuration > t2.ExpectedDuration

TaskListLess(t1, t2) ==
    IF t1.TaskGroupOrder # t2.TaskGroupOrder THEN t1.TaskGroupOrder < t2.TaskGroupOrder
    ELSE IF t1.NumDependents # t2.NumDependents THEN t1.NumDependents > t2.NumDependents
    ELSE IF t1.Priority # t2.Priority THEN t1.Priority > t2.Priority
    ELSE t1.ExpectedDuration > t2.ExpectedDuration

\* TaskPlan.Less sorting by ascending rank
TaskPlanLessAscending(u1, u2, settings) ==
    RankValue(u1, settings) < RankValue(u2, settings)

TaskPlanLess(u1, u2, settings) == RankValue(u1, settings) > RankValue(u2, settings)

\* sort.Sort on a slice of at most 12 elements is an insertion sort: the new
\* element moves left while it is Less than its left neighbour
RECURSIVE InsertTask(_, _)
InsertTask(s, t) ==
    IF s = <<>> \/ ~TaskListLess(t, s[Len(s)]) THEN Append(s, t)
    ELSE Append(InsertTask(SubSeq(s, 1, Len(s) - 1), t), s[Len(s)])

\* the exported tasks left in the order the map walk produced
SortTasksKeep(s) == s

RECURSIVE SortTasks(_)
SortTasks(s) ==
    IF s = <<>> THEN <<>>
    ELSE InsertTask(SortTasks(SubSeq(s, 1, Len(s) - 1)), s[Len(s)])

RECURSIVE InsertUnit(_, _, _, _)
InsertUnit(s, u, us, settings) ==
    IF s = <<>> \/ ~TaskPlanLess(us[u], us[s[Len(s)]], settings) THEN Append(s, u)
    ELSE Append(InsertUnit(SubSeq(s, 1, Len(s) - 1), u, us, settings), s[Len(s)])

RECURSIVE SortPlan(_, _, _)
SortPlan(s, us, settings) ==
    IF s = <<>> THEN <<>>
    ELSE InsertUnit(SortPlan(SubSeq(s, 1, Len(s) - 1), us, settings), s[Len(s)], us, settings)

\* the orders in which a range loop can walk a map with the key set S
Orders(S) ==
    {o \in [1..Cardinality(S) -> S] : \A p, q \in 1..Cardinality(S) : p # q => o[p] # o[q]}

-----------------------------------------------------------------------------
(* UnitCache: a state st is [units |-> arena, cache |-> key -> unit index] *)

Exists(st, key) == key \in DOMAIN st.cache

Bind(c, id, u) == [x \in (DOMAIN c) \cup {id} |-> IF x = id THEN u ELSE c[x]]

\* existing.Add(t) for every t of the map m
RECURSIVE AddAll(_, _)
AddAll(unit, m) ==
    IF DOMAIN m = {} THEN unit
    ELSE LET id == CHOOSE x \in DOMAIN m : TRUE
         IN AddAll(UnitAdd(unit, m[id]), [x \in (DOMAIN m) \ {id} |-> m[x]])

\* AddNew registering a copy of the unit instead of the unit itself
AddNewCopy(st, id, u) ==
    IF Exists(st, id)
    THEN [st EXCEPT !.units[st.cache[id]] = AddAll(@, st.units[u].tasks)]
    ELSE [units |-> Append(st.units, st.units[u]),
          cache |-> Bind(st.cache, id, Len(st.units) + 1)]

AddNew(st, id, u) ==
    IF Exists(st, id)
    THEN [st EXCEPT !.units[st.cache[id]] = AddAll(@, st.units[u].tasks)]
    ELSE [st EXCEPT !.cache = Bind(@, id, u)]


\* Create without the lookup: the key is always bound to a new unit around t
CreateRebind(st, id, t) ==
    LET u == Len(st.units) + 1
    IN [st |-> [units |-> Append(st.units, NewUnit(t)), cache |-> Bind(st.cache, id, u)],
        unit |-> u]


\* Create that does not register the unit it makes
CreateUnbound(st, id, t) ==
    IF Exists(st, id)
    THEN [st |-> [st EXCEPT !.units[st.cache[id]] = UnitAdd(@, t)], unit |-> st.cache[id]]
    ELSE [st |-> [st EXCEPT !.units = Append(@, NewUnit(t))], unit |-> Len(st.units) + 1]

\* Create returns the state and the unit: [st |-> ..., unit |-> index]
Create(st, id, t) ==
    IF Exists(st, id)
    THEN [st |-> [st EXCEPT !.units[st.cache[id]] = UnitAdd(@, t)], unit |-> st.cache[id]]
    ELSE LET u == Len(st.units) + 1
         IN [st |-> AddNew([st EXCEPT !.units = Append(@, NewUnit(t))], id, u), unit |-> u]

\* AddWhen without the lookup: the key is bound to a new unit around t
AddWhenRebind(st, cond, id, t) ==
    IF ~cond THEN st
    ELSE [units |-> Append(st.units, NewUnit(t)),
          cache |-> Bind(st.cache, id, Len(st.units) + 1)]

AddWhen(st, cond, id, t) ==
    IF ~cond THEN st
    ELSE IF Exists(st, id) THEN [st EXCEPT !.units[st.cache[id]] = UnitAdd(@, t)]
    ELSE Create(st, id, t).st

-----------------------------------------------------------------------------
(* PrepareTasksForPlanning *)

ShouldGroupVersions(settings) == settings.GroupVersions


\* the first loop's body without the fold of task-group tasks into the
\* version unit
AssembleTaskNoVersionFold(st, settings, t) ==
    LET r == IF t.TaskGroup # EmptyString THEN
                 LET c == Create(st, GetTaskGroupString(t), t)
                 IN [st |-> AddNew(c.st, t.Id, c.unit), unit |-> c.unit]
             ELSE IF ShouldGroupVersions(settings) THEN
                 LET c == Create(st, t.Version, t)
                 IN [st |-> AddNew(c.st, t.Id, c.unit), unit |-> c.unit]
             ELSE Create(st, t.Id, t)
    IN [r.st EXCEPT !.units[r.unit] = SetDistro(@, TheDistro)]

\* the body of the first loop, for the task t
AssembleTask(st, settings, t) ==
    LET r == IF t.TaskGroup # EmptyString THEN
                 LET c == Create(st, GetTaskGroupString(t), t)
                     a == AddNew(c.st, t.Id, c.unit)
                 IN [st |-> AddWhen(a, ShouldGroupVersions(settings), t.Version, t),
                     unit |-> c.unit]
             ELSE IF ShouldGroupVersions(settings) THEN
                 LET c == Create(st, t.Version, t)
                 IN [st |-> AddNew(c.st, t.Id, c.unit), unit |-> c.unit]
             ELSE Create(st, t.Id, t)
    IN [r.st EXCEPT !.units[r.unit] = SetDistro(@, TheDistro)]

\* the body of the second loop, for the task t and its dependencies deps
RECURSIVE AttachDependencies(_, _, _)
AttachDependencies(st, t, deps) ==
    IF deps = <<>> THEN st
    ELSE AttachDependencies(AddWhen(st, Exists(st, Head(deps)), Head(deps), t), t, Tail(deps))


-----------------------------------------------------------------------------
(* Inputs of a planning call *)

\* the id of the task at position p of the batch: "a", "b", "ab", "c", ...
IdAt(p) ==
    CASE p = 1 -> <<1>>
      [] p = 2 -> <<2>>
      [] p = 3 -> <<1, 2>>
      [] OTHER -> <<p - 1>>

\* an id no task of the batch has
AbsentId == <<9>>

VersionA == <<21>>
VersionB == <<22>>
GroupName == <<7>>

BaseTask ==
    [Id |-> EmptyString, Version |-> VersionA, TaskGroup |-> EmptyString,
     TaskGroupOrder |-> 0, Priority |-> 0, NumDependents |-> 0, DependsOn |-> <<>>,
     Requester |-> "gitter_request", GenerateTask |-> FALSE, ActivatedBy |-> "",
     ActivatedTime |-> <<60>>, IngestTime |-> <<>>, ExpectedDuration |-> 0]

\* tasks that differ in version and task group membership
GroupingKinds ==
    {[BaseTask EXCEPT !.Version = v, !.TaskGroup = g[1], !.TaskGroupOrder = g[2]] :
        v \in {VersionA, VersionB},
        g \in {<<EmptyString, 0>>, <<GroupName, 0>>, <<GroupName, 1>>}}

\* tasks that differ in provenance
RequesterKinds ==
    {[BaseTask EXCEPT !.Requester = r] :
        r \in {"patch_request", "merge_test"}}

\* tasks that differ in what TaskList.Less compares
OrderKinds ==
    {[BaseTask EXCEPT !.NumDependents = x[1], !.Priority = x[2], !.ExpectedDuration = x[3]] :
        x \in {<<1, 0, 0>>, <<0, 2, 0>>, <<0, 0, 30>>}}

\* a kind, and whether the task depends on the task before it in the batch
\* (the first task then names a task outside the batch)
TaskChoices ==
    ((GroupingKinds \cup RequesterKinds) \X BOOLEAN) \cup (OrderKinds \X {FALSE})

TaskOf(p, choice) ==
    [choice[1] EXCEPT !.Id = IdAt(p),
                      !.DependsOn = IF choice[2]
                                    THEN <<IF p = 1 THEN AbsentId ELSE IdAt(p - 1)>>
                                    ELSE <<>>]

Batches(choices, n) ==
    UNION {{[p \in 1..len |-> TaskOf(p, c[p])] : c \in [1..len -> choices]} : len \in 0..n}

UnitFactors ==
    [GroupVersions |-> FALSE, GenerateTaskFactor |-> 1, PatchFactor |-> 1,
     PatchTimeInQueueFactor |-> 1, CommitQueueFactor |-> 1,
     MainlineTimeInQueueFactor |-> 1, StepbackTaskFactor |-> 1,
     ExpectedRuntimeFactor |-> 1]

SettingsChoices == {[UnitFactors EXCEPT !.GroupVersions = g] : g \in BOOLEAN}

-----------------------------------------------------------------------------
(* The planning call as a state machine *)

Start(settings, batch, n, prev) ==
    /\ distro = settings
    /\ tasks = batch
    /\ pc = "pass1"
    /\ i = 1
    /\ units = <<>>
    /\ cache = << >>
    /\ walked = {}
    /\ seenUnits = {}
    /\ tpl = <<>>
    /\ k = 1
    /\ seen = {}
    /\ output = <<>>
    /\ source = <<>>
    /\ calls = n
    /\ prevOutput = prev

Init ==
    \E settings \in SettingsChoices, batch \in Batches(TaskChoices, MaxTasks) :
        Start(settings, batch, 1, <<>>)

St == [units |-> units, cache |-> cache]

\* one iteration of the first loop of PrepareTasksForPlanning
Pass1Step ==
    /\ pc = "pass1"
    /\ i <= Len(tasks)
    /\ LET st == AssembleTask(St, distro, tasks[i])
       IN /\ units' = st.units
          /\ cache' = st.cache
    /\ i' = i + 1
    /\ UNCHANGED <<distro, tasks, pc, walked, seenUnits, tpl, k, seen, output, source,
                   calls, prevOutput>>

Pass1End ==
    /\ pc = "pass1"
    /\ i > Len(tasks)
    /\ pc' = "pass2"
    /\ i' = 1
    /\ UNCHANGED <<distro, tasks, units, cache, walked, seenUnits, tpl, k, seen, output,
                   source, calls, prevOutput>>

\* one iteration of the second loop of PrepareTasksForPlanning
Pass2Step ==
    /\ pc = "pass2"
    /\ i <= Len(tasks)
    /\ LET st == AttachDependencies(St, tasks[i], tasks[i].DependsOn)
       IN /\ units' = st.units
          /\ cache' = st.cache
    /\ i' = i + 1
    /\ UNCHANGED <<distro, tasks, pc, walked, seenUnits, tpl, k, seen, output, source,
                   calls, prevOutput>>

Pass2End ==
    /\ pc = "pass2"
    /\ i > Len(tasks)
    /\ pc' = "export"
    /\ UNCHANGED <<distro, tasks, i, units, cache, walked, seenUnits, tpl, k, seen, output,
                   source, calls, prevOutput>>

\* Visit that never reports an id as seen
VisitForgetful(s, id) == <<FALSE, s \cup {id}>>

\* Visit: <<whether id was already in the set, the set afterwards>>
Visit(s, id) == IF id \in s THEN <<TRUE, s>> ELSE <<FALSE, s \cup {id}>>

\* the loop body of UnitCache.Export without the nil distro check
ExportEntryKeepNil(id) ==
    LET u == cache[id]
        uid == UnitID(units[u])
        v == Visit(seenUnits, uid)
    IN /\ units' = [units EXCEPT ![u].id = uid]
       /\ seenUnits' = v[2]
       /\ tpl' = IF v[1] THEN tpl ELSE Append(tpl, u)

\* one iteration of the range loop of UnitCache.Export, for the key id
ExportEntry(id) ==
    LET u == cache[id]
        uid == UnitID(units[u])
        v == Visit(seenUnits, uid)
    IN /\ units' = [units EXCEPT ![u].id = uid]
       /\ seenUnits' = v[2]
       /\ tpl' = IF v[1] THEN tpl
                 ELSE IF units[u].distro = NilDistro THEN tpl
                 ELSE Append(tpl, u)

\* the range loop of UnitCache.Export picks the next key in any order
ExportStep ==
    /\ pc = "export"
    /\ \E id \in (DOMAIN cache) \ walked :
        /\ ExportEntry(id)
        /\ walked' = walked \cup {id}
    /\ UNCHANGED <<distro, tasks, pc, i, cache, k, seen, output, source, calls, prevOutput>>

ExportEnd ==
    /\ pc = "export"
    /\ walked = DOMAIN cache
    /\ pc' = "sort"
    /\ UNCHANGED <<distro, tasks, i, units, cache, walked, seenUnits, tpl, k, seen, output,
                   source, calls, prevOutput>>

\* sort.Sort(tpl) of TaskPlan.Export; Less is called, and the ranks are
\* memoized, when the plan holds at least two units
SortStep ==
    /\ pc = "sort"
    /\ tpl' = SortPlan(tpl, units, distro)
    /\ units' = [u \in DOMAIN units |->
                    IF Len(tpl) >= 2 /\ \E p \in DOMAIN tpl : tpl[p] = u
                    THEN Ranked(units[u], distro) ELSE units[u]]
    /\ pc' = "flatten"
    /\ k' = 1
    /\ UNCHANGED <<distro, tasks, i, cache, walked, seenUnits, seen, output, source, calls,
                   prevOutput>>

\* the inner loop of TaskPlan.Export over the sorted tasks ts of the unit u:
\* [seen, output, source]
RECURSIVE Emit(_, _, _)
Emit(acc, ts, u) ==
    IF ts = <<>> THEN acc
    ELSE LET v == Visit(acc.seen, Head(ts).Id)
         IN Emit(IF v[1] THEN acc
                 ELSE [seen |-> v[2], output |-> Append(acc.output, Head(ts)),
                       source |-> Append(acc.source, u)],
                 Tail(ts), u)

\* one iteration of the outer loop of TaskPlan.Export: unit.Export() walks
\* the unit's task map in any order
FlattenStep ==
    /\ pc = "flatten"
    /\ k <= Len(tpl)
    /\ \E o \in Orders(Keys(units[tpl[k]])) :
        LET m == units[tpl[k]].tasks
            exported == [p \in DOMAIN o |-> m[o[p]]]
            acc == Emit([seen |-> seen, output |-> output, source |-> source],
                        SortTasks(exported), tpl[k])
        IN /\ seen' = acc.seen
           /\ output' = acc.output
           /\ source' = acc.source
    /\ k' = k + 1
    /\ UNCHANGED <<distro, tasks, pc, i, units, cache, walked, seenUnits, tpl, calls,
                   prevOutput>>

FlattenEnd ==
    /\ pc = "flatten"
    /\ k > Len(tpl)
    /\ pc' = "done"
    /\ UNCHANGED <<distro, tasks, i, units, cache, walked, seenUnits, tpl, k, seen, output,
                   source, calls, prevOutput>>

Next ==
    \/ Pass1Step
    \/ Pass1End
    \/ Pass2Step
    \/ Pass2End
    \/ ExportStep
    \/ ExportEnd
    \/ SortStep
    \/ FlattenStep
    \/ FlattenEnd

Spec == Init /\ [][Next]_vars


\* a second planning call on the same distro, batch and "now"
Replan ==
    /\ pc = "done"
    /\ calls < MaxCalls
    /\ pc' = "pass1"
    /\ i' = 1
    /\ units' = <<>>
    /\ cache' = << >>
    /\ walked' = {}
    /\ seenUnits' = {}
    /\ tpl' = <<>>
    /\ k' = 1
    /\ seen' = {}
    /\ output' = <<>>
    /\ source' = <<>>
    /\ calls' = calls + 1
    /\ prevOutput' = output
    /\ UNCHANGED <<distro, tasks>>

\* planning calls repeated on the same inputs, version grouping off
InitTwice ==
    \E batch \in Batches(TaskChoices, MaxTasks) : Start(UnitFactors, batch, 1, <<>>)

NextTwice == Next \/ Replan

SpecTwice == InitTwice /\ [][NextTwice]_vars

\* tasks that differ in what the scoring function reads
RankKinds ==
    {[BaseTask EXCEPT !.Priority = pr, !.Requester = r, !.TaskGroup = g] :
        pr \in {-3, -1, 0, 2},
        r \in {"gitter_request", "patch_request", "merge_test", "github_merge_request"},
        g \in {EmptyString, GroupName}}

ZeroFactors ==
    [GroupVersions |-> FALSE, GenerateTaskFactor |-> 0, PatchFactor |-> 0,
     PatchTimeInQueueFactor |-> 0, CommitQueueFactor |-> 0,
     MainlineTimeInQueueFactor |-> 0, StepbackTaskFactor |-> 0,
     ExpectedRuntimeFactor |-> 0]

RankSettings ==
    {[f EXCEPT !.GroupVersions = g] : f \in {ZeroFactors, UnitFactors}, g \in BOOLEAN}

InitRank ==
    \E settings \in RankSettings, batch \in Batches(RankKinds \X {FALSE}, MaxTasks) :
        Start(settings, batch, 1, <<>>)

SpecRank == InitRank /\ [][Next]_vars

-----------------------------------------------------------------------------
(* Notions the properties share *)

BatchIds == {tasks[p].Id : p \in DOMAIN tasks}

OutputIds == {output[p].Id : p \in DOMAIN output}

PlanUnits == {tpl[p] : p \in DOMAIN tpl}

Planned == pc \in {"export", "sort", "flatten", "done"}

\* the position of the task id x in the output
PositionOf(x) == CHOOSE p \in DOMAIN output : output[p].Id = x

\* the greatest rank among the plan's units that hold the task id x
MaxRank(x) ==
    LET R == {RankValue(units[u], distro) : u \in {v \in PlanUnits : x \in Keys(units[v])}}
    IN CHOOSE r \in R : \A r2 \in R : r2 <= r


-----------------------------------------------------------------------------
(* Properties *)

\* C1: when the plan has been flattened, every task id of the batch appears
\* exactly once in the output, whatever order the cache was walked in.
C1_TaskCoverage ==
    pc = "done" =>
        \A x \in BatchIds : Cardinality({p \in DOMAIN output : output[p].Id = x}) = 1

\* C2: a second planning call on the same distro, batch and "now" returns
\* the task sequence the first call returned.
C2_Determinism ==
    (pc = "done" /\ calls > 1) => output = prevOutput

\* C3: after both passes, if t depends on d and both are in the batch, the
\* unit under the key d.Id holds d and t; and an iteration of the second
\* pass whose task names no cache key leaves cache and units as they were.
C3_CoLocated ==
    Planned =>
        \A p, q \in DOMAIN tasks :
            (\E n \in DOMAIN tasks[p].DependsOn : tasks[p].DependsOn[n] = tasks[q].Id) =>
                /\ tasks[q].Id \in DOMAIN cache
                /\ {tasks[p].Id, tasks[q].Id} \subseteq Keys(units[cache[tasks[q].Id]])

C3_AbsentIgnored ==
    (/\ pc = "pass2"
     /\ i <= Len(tasks)
     /\ \A n \in DOMAIN tasks[i].DependsOn : tasks[i].DependsOn[n] \notin DOMAIN cache)
    => (cache' = cache /\ units' = units)

C3_DependencyCoLocation == []C3_CoLocated /\ [][C3_AbsentIgnored]_vars

C3_Witness ==
    /\ pc = "export"
    /\ \E p, q \in DOMAIN tasks :
        /\ p # q
        /\ tasks[p].DependsOn = <<tasks[q].Id>>
        /\ {tasks[p].Id, tasks[q].Id} \subseteq Keys(units[cache[tasks[q].Id]])
    /\ \E p \in DOMAIN tasks : tasks[p].DependsOn = <<AbsentId>>

\* C4: in the output, a task whose best unit (the highest ranked unit of the
\* plan that holds it) ranks strictly above another task's best unit comes
\* before that task.
C4_FirstOccurrenceWins ==
    pc = "done" =>
        \A x, y \in OutputIds :
            MaxRank(x) > MaxRank(y) => PositionOf(x) < PositionOf(y)

C4_Witness ==
    /\ pc = "done"
    /\ \E x, y \in OutputIds :
        /\ MaxRank(x) > MaxRank(y)
        /\ \E u \in PlanUnits :
            /\ {x, y} \subseteq Keys(units[u])
            /\ source[PositionOf(x)] # u
            /\ source[PositionOf(y)] = u

\* C5: the output never holds a task id twice, and when the plan has been
\* flattened its ids are the ids of the tasks of the plan's units.
C5_NoDuplicates ==
    /\ \A p, q \in DOMAIN output : output[p].Id = output[q].Id => p = q
    /\ pc = "done" => OutputIds = UNION {Keys(units[u]) : u \in PlanUnits}

C5_Witness ==
    /\ pc = "done"
    /\ \E u, v \in PlanUnits : u # v /\ Keys(units[u]) \cap Keys(units[v]) # {}

\* C6: two tasks emitted from the same unit appear in TaskList order: the
\* later one is not Less than the earlier one, so of two tasks of a task
\* group the one with the lower TaskGroupOrder comes first.
C6_IntraUnitOrder ==
    \A p, q \in DOMAIN output :
        (p < q /\ source[p] = source[q]) =>
            /\ ~TaskListLess(output[q], output[p])
            /\ output[p].TaskGroupOrder <= output[q].TaskGroupOrder

C6_Witness ==
    /\ pc = "done"
    /\ \E p, q \in DOMAIN output :
        /\ source[p] = source[q]
        /\ output[p].TaskGroup # EmptyString
        /\ output[p].TaskGroup = output[q].TaskGroup
        /\ output[p].TaskGroupOrder < output[q].TaskGroupOrder
        /\ tasks[1].Id = output[q].Id

\* the plan was sorted and its units ranked (Less ran on two units or more)
Scored == pc \in {"flatten", "done"} /\ Len(tpl) >= 2

\* C7: with non-negative planner factors, every unit RankValue was computed
\* for holds a rank above 0 in cachedValue, whatever the sign of its tasks'
\* priorities.
C7_RankPositive ==
    Scored => \A u \in PlanUnits : units[u].cachedValue > 0

\* the value the commit queue branch yields for the snapshot u
CommitQueueValue(u) ==
    LET length == Cardinality(u.TaskIDs)
        p0 == 1 + TruncDiv(u.TotalPriority, length)
        p1 == IF ~u.ContainsNonGroupTasks THEN p0 + length ELSE p0
        p2 == IF u.ContainsGenerateTask THEN p1 * u.Settings.GenerateTaskFactor ELSE p1
        priority == p2 + CommitQueueBoost
    IN priority * u.Settings.CommitQueueFactor
       + length
       + priority
       + priority * TruncDiv(u.NumDeps, length)
       + priority * u.Settings.ExpectedRuntimeFactor * FloorDiv(u.ExpectedRuntime, length)

\* C8: a unit whose snapshot sets ContainsInPatch and ContainsInCommitQueue
\* is ranked by the commit queue branch, without the patch contributions.
C8_CommitQueuePrecedence ==
    Scored =>
        \A u \in PlanUnits :
            LET info == Info(units[u], distro)
            IN (info.ContainsInPatch /\ info.ContainsInCommitQueue) =>
                   units[u].cachedValue = CommitQueueValue(info)

\* C9: no unit of the plan has a nil distro.
C9_NoNilDistroInPlan ==
    \A u \in PlanUnits : units[u].distro # NilDistro

C9_Witness ==
    /\ pc = "done"
    /\ output # <<>>
    /\ \E id \in DOMAIN cache : units[cache[id]].distro = NilDistro

\* two cache keys whose units share a task id name the same unit
OverlapImpliesMerged ==
    \A k1, k2 \in DOMAIN cache :
        Keys(units[cache[k1]]) \cap Keys(units[cache[k2]]) # {} => cache[k1] = cache[k2]

\* C10 as stated: at every point of the planning call, overlapping units
\* are one unit.
C10_OverlapImpliesMerged == OverlapImpliesMerged

\* no DependsOn reference of the batch names a cache key
NoDependencyInCache ==
    \A p \in DOMAIN tasks :
        \A n \in DOMAIN tasks[p].DependsOn : tasks[p].DependsOn[n] \notin DOMAIN cache

\* C10 as amended: with version grouping off, overlapping units are one
\* unit during the first pass, and afterwards when no dependency was folded
\* into a unit.
C10_OverlapImpliesMergedUngrouped ==
    (~ShouldGroupVersions(distro) /\ (pc = "pass1" \/ NoDependencyInCache))
        => OverlapImpliesMerged

C10_Witness ==
    /\ ~ShouldGroupVersions(distro)
    /\ pc = "pass1"
    /\ \E k1, k2 \in DOMAIN cache :
        /\ k1 # k2
        /\ cache[k1] = cache[k2]
        /\ Cardinality(Keys(units[cache[k1]])) > 1



-----------------------------------------------------------------------------
(* C11: alias merge *)

\* At any point of the two passes, for a unit registered under the keys k1
\* and k2 and any batch task t: Create(k1, t), Create(k2, t) and
\* AddWhen(true, k1, t) return and mutate that one unit, bind no key anew and
\* allocate no unit, and afterwards t is held by the unit every alias names.
C11_SameUnit ==
    pc \in {"pass1", "pass2"} =>
        \A k1 \in DOMAIN cache : \A k2 \in DOMAIN cache :
            cache[k1] = cache[k2] =>
                \A p \in 1..Len(tasks) :
                    LET t == tasks[p]
                        c1 == Create(St, k1, t)
                        c2 == Create(St, k2, t)
                        w == AddWhen(St, TRUE, k1, t)
                    IN /\ c1.unit = cache[k1]
                       /\ c2.unit = cache[k1]
                       /\ c1.st = c2.st
                       /\ w = c1.st
                       /\ c1.st.cache = cache
                       /\ Len(c1.st.units) = Len(units)
                       /\ \A key \in DOMAIN cache :
                              cache[key] = cache[k1] =>
                                  t.Id \in Keys(c1.st.units[c1.st.cache[key]])

\* no step of the planner binds a registered key to another unit, and the
\* unit a key names never loses a task
C11_NoRebind ==
    \A key \in DOMAIN cache :
        /\ key \in DOMAIN cache'
        /\ cache'[key] = cache[key]
        /\ Keys(units[cache[key]]) \subseteq Keys(units'[cache'[key]])

\* C11: a unit registered under several keys is one object: Create and
\* AddWhen through any of its keys add the task to that same unit, no key is
\* rebound, and the task is then visible through every key naming the unit.
C11_AliasMerge == []C11_SameUnit /\ [][C11_NoRebind]_vars

\* a task-group unit named by its group key and by a member's id has taken
\* a second member through Create on the existing group key
C11_Witness ==
    /\ pc = "pass2"
    /\ \E p \in 1..Len(tasks) : \E q \in 1..Len(tasks) :
           /\ p < q
           /\ tasks[q].TaskGroup # EmptyString
           /\ GetTaskGroupString(tasks[q]) \in DOMAIN cache
           /\ tasks[p].Id \in DOMAIN cache
           /\ cache[tasks[p].Id] = cache[GetTaskGroupString(tasks[q])]
           /\ {tasks[p].Id, tasks[q].Id} \subseteq Keys(units[cache[tasks[p].Id]])


-----------------------------------------------------------------------------
(* The Unit API on its own: two units built from one sequence of Add calls *)

\* the longest sequence of Add calls
MaxAdds == 3

\* arguments of Add: two ids, and for each id two values that differ in Priority
AddKinds ==
    {[BaseTask EXCEPT !.Id = id, !.Priority = p] : id \in {IdAt(1), IdAt(2)}, p \in {0, 2}}

Scripts == UNION {[1..len -> AddKinds] : len \in 0..MaxAdds}

\* ids as the range loop of ID collected them, left unsorted
SortIdsKeep(ids) == ids

\* sort.Sort(ids) on the slice ids of distinct strings
RECURSIVE SortIds(_)
SortIds(ids) ==
    IF ids = <<>> THEN <<>>
    ELSE LET m == CHOOSE p \in 1..Len(ids) :
                      \A q \in 1..Len(ids) : q # p => StringLess(ids[p], ids[q])
         IN <<ids[m]>> \o SortIds(SubSeq(ids, 1, m - 1) \o SubSeq(ids, m + 1, Len(ids)))

\* ID() when the range loop over unit.tasks yields the ids in the order o
UnitIDWalk(unit, o) ==
    IF unit.id # EmptyString THEN unit.id
    ELSE Sha1Hex(WriteStrings(SortIds(o)))

\* unit 1 takes the calls in the order of the sequence, unit 2 in any order
InitUnit ==
    \E script \in Scripts :
        /\ distro = UnitFactors
        /\ tasks = script
        /\ pc = "unit"
        /\ i = 1
        /\ units = <<MakeUnit(TheDistro), MakeUnit(TheDistro)>>
        /\ cache = << >>
        /\ walked = {}
        /\ seenUnits = {}
        /\ tpl = <<>>
        /\ k = 1
        /\ seen = {}
        /\ output = <<>>
        /\ source = <<>>
        /\ calls = 1
        /\ prevOutput = <<>>

\* every Add call of the sequence has been made on the unit u
Built(u) == IF u = 1 THEN i > Len(tasks) ELSE walked = 1..Len(tasks)

\* units[1].Add(tasks[i])
AddInOrder ==
    /\ pc = "unit"
    /\ i <= Len(tasks)
    /\ units' = [units EXCEPT ![1] = UnitAdd(@, tasks[i])]
    /\ i' = i + 1
    /\ UNCHANGED <<distro, tasks, pc, cache, walked, seenUnits, tpl, k, seen,
                   output, source, calls, prevOutput>>

\* units[2].Add(tasks[p]) for a call p not made yet
AddAnyOrder ==
    /\ pc = "unit"
    /\ \E p \in (1..Len(tasks)) \ walked :
           /\ units' = [units EXCEPT ![2] = UnitAdd(@, tasks[p])]
           /\ walked' = walked \cup {p}
    /\ UNCHANGED <<distro, tasks, pc, i, cache, seenUnits, tpl, k, seen,
                   output, source, calls, prevOutput>>

\* the first ID() call on a built unit
IDStep ==
    /\ pc = "unit"
    /\ \E u \in 1..2 :
           /\ Built(u)
           /\ units[u].id = EmptyString
           /\ \E o \in Orders(Keys(units[u])) :
                  units' = [units EXCEPT ![u].id = UnitIDWalk(units[u], o)]
    /\ UNCHANGED <<distro, tasks, pc, i, cache, walked, seenUnits, tpl, k, seen,
                   output, source, calls, prevOutput>>

\* a RankValue() call that computes: no value > 0 is stored yet
RankStep ==
    /\ pc = "unit"
    /\ \E u \in 1..2 :
           /\ Keys(units[u]) # {}
           /\ units[u].cachedValue <= 0
           /\ units' = [units EXCEPT ![u] = Ranked(@, distro)]
    /\ UNCHANGED <<distro, tasks, pc, i, cache, walked, seenUnits, tpl, k, seen,
                   output, source, calls, prevOutput>>

NextUnit ==
    \/ AddInOrder
    \/ AddAnyOrder
    \/ IDStep
    \/ RankStep

SpecUnit == InitUnit /\ [][NextUnit]_vars


-----------------------------------------------------------------------------
(* C12: idempotent add *)

\* the step is units[1].Add(tasks[i]) and the id of tasks[i] is present
AddOfPresentId ==
    /\ pc = "unit"
    /\ i' = i + 1
    /\ tasks[i].Id \in Keys(units[1])

\* C12 as stated: Unit.Add with a task whose id is already present leaves
\* the unit unchanged (same id set, same ID(), same aggregated snapshot and
\* same RankValue), also when the task differs from the stored one in
\* fields other than Id.
C12_IdempotentAdd ==
    [][AddOfPresentId =>
          /\ Keys(units'[1]) = Keys(units[1])
          /\ UnitID(units'[1]) = UnitID(units[1])
          /\ Info(units'[1], distro) = Info(units[1], distro)
          /\ RankValue(units'[1], distro) = RankValue(units[1], distro)]_vars

\* C12 amended: Unit.Add with a task whose id is already present keeps the
\* id set, ID() and the memoized rank, and stores the task passed in place of
\* the one held under that id; the unit is unchanged when the two are equal.
C12_AddStoresLastValue ==
    [][AddOfPresentId =>
          /\ Keys(units'[1]) = Keys(units[1])
          /\ UnitID(units'[1]) = UnitID(units[1])
          /\ units'[1].cachedValue = units[1].cachedValue
          /\ units'[1].tasks[tasks[i].Id] = tasks[i]
          /\ \A id \in Keys(units[1]) \ {tasks[i].Id} :
                 units'[1].tasks[id] = units[1].tasks[id]
          /\ (tasks[i] = units[1].tasks[tasks[i].Id] =>
                 /\ units'[1] = units[1]
                 /\ Info(units'[1], distro) = Info(units[1], distro)
                 /\ RankValue(units'[1], distro) = RankValue(units[1], distro))]_vars

\* unit 1 has taken two Add calls with one id and different values, and
\* holds the value of the later call
C12_Witness ==
    /\ pc = "unit"
    /\ \E p \in 1..Len(tasks) : \E q \in 1..Len(tasks) :
           /\ p < q
           /\ q = i - 1
           /\ tasks[p].Id = tasks[q].Id
           /\ tasks[p] # tasks[q]
           /\ units[1].tasks[tasks[q].Id] = tasks[q]

-----------------------------------------------------------------------------
(* C13: identity stability *)

\* C13: two units built by adding the same tasks in any two insertion
\* orders return the same ID(), for every order in which ID's range loop
\* walks the task map; the id is the hash of the sorted set of task ids.
C13_IdentityStability ==
    pc = "unit" =>
        /\ \A u \in 1..2 : \A v \in 1..2 :
               (/\ units[u].id # EmptyString
                /\ units[v].id # EmptyString
                /\ Keys(units[u]) = Keys(units[v]))
               => units[u].id = units[v].id
        /\ \A u \in 1..2 :
               units[u].id # EmptyString =>
                   units[u].id = Sha1Hex(WriteStrings(SortStrings(Keys(units[u]))))

\* both units are built from the same calls made in different orders, which
\* shows in the values they hold, and both have computed their id
C13_Witness ==
    /\ pc = "unit"
    /\ units[1].id # EmptyString
    /\ units[2].id # EmptyString
    /\ Cardinality(Keys(units[1])) = 2
    /\ Keys(units[1]) = Keys(units[2])
    /\ units[1].tasks # units[2].tasks


-----------------------------------------------------------------------------
(* C14: no empty unit *)

\* C14: at every point of the planning call every unit registered under a
\* cache key holds at least one task, and so does every unit of the plan
\* whose rank the sort computes: value() never divides by a length of 0.
C14_NoEmptyUnit ==
    pc # "unit" =>
        /\ \A key \in DOMAIN cache : Keys(units[cache[key]]) # {}
        /\ \A p \in 1..Len(tpl) : Cardinality(Keys(units[tpl[p]])) >= 1

\* the plan holds two units, so the sort is about to compute their ranks
C14_Witness ==
    /\ pc = "sort"
    /\ Len(tpl) >= 2
    /\ \A p \in 1..Len(tpl) : units[tpl[p]].cachedValue = 0
    /\ \E key \in DOMAIN cache : cache[key] = tpl[1]


-----------------------------------------------------------------------------
(* C15: every cache unit has a distro when the cache is exported *)

\* C15: when PrepareTasksForPlanning, called with a non-nil distro, reaches
\* cache.Export(), every unit registered under any cache key has a non-nil
\* distro, so the nil-distro skip of UnitCache.Export never fires.
C15_DistroSetAtExport ==
    pc = "export" =>
        \A key \in DOMAIN cache : units[cache[key]].distro # NilDistro

-----------------------------------------------------------------------------
(* C16: what UnitCache.Export omits *)

\* C16: for every cache entry whose unit has a non-nil distro, the plan
\* UnitCache.Export returns contains a unit with that unit's ID, for every
\* order in which the cache map is walked, also when another entry holds a
\* nil-distro unit with the same task set.
C16_ExportOmitsOnlyNilOrSeen ==
    pc = "sort" =>
        \A key \in DOMAIN cache :
            units[cache[key]].distro # NilDistro =>
                \E p \in 1..Len(tpl) :
                    UnitID(units[tpl[p]]) = UnitID(units[cache[key]])


-----------------------------------------------------------------------------
(* Batches of task-group members and an urgent task, with dependencies *)

\* the members of one task group in sequence, and an ungrouped task whose
\* Priority lifts the rank of the unit that holds it
GroupMemberKinds ==
    {[BaseTask EXCEPT !.TaskGroup = GroupName, !.TaskGroupOrder = o] : o \in {0, 1}}
        \cup {[BaseTask EXCEPT !.Priority = 10]}

GroupBatchLen == MaxTasks + 1

GroupBatches ==
    {[p \in 1..GroupBatchLen |-> TaskOf(p, c[p])] :
        c \in [1..GroupBatchLen -> GroupMemberKinds \X BOOLEAN]}

InitGroups ==
    \E settings \in SettingsChoices, batch \in GroupBatches :
        Start(settings, batch, 1, <<>>)

SpecGroups == InitGroups /\ [][Next]_vars

-----------------------------------------------------------------------------
(* C17: task-group sequence in the output *)

SameTaskGroup(a, b) ==
    a.TaskGroup # EmptyString /\ GetTaskGroupString(a) = GetTaskGroupString(b)

\* C17 as stated: for any two batch tasks a and b of the same task group
\* with a.TaskGroupOrder < b.TaskGroupOrder, a precedes b in the final
\* output, also when a dependency reference or version grouping places b in
\* another, higher-ranked unit.
C17_GroupSequence ==
    pc = "done" =>
        \A p \in DOMAIN tasks : \A q \in DOMAIN tasks :
            (/\ SameTaskGroup(tasks[p], tasks[q])
             /\ tasks[p].TaskGroupOrder < tasks[q].TaskGroupOrder
             /\ {tasks[p].Id, tasks[q].Id} \subseteq OutputIds)
            => PositionOf(tasks[p].Id) < PositionOf(tasks[q].Id)

\* C17 amended: a task b of the output is preceded by every batch task a of
\* its task group with a lower TaskGroupOrder that the unit b was emitted
\* from holds, whether a was emitted from that unit or from an earlier one.
C17_GroupSequenceInSourceUnit ==
    \A q \in DOMAIN output : \A p \in DOMAIN tasks :
        (/\ SameTaskGroup(tasks[p], output[q])
         /\ tasks[p].TaskGroupOrder < output[q].TaskGroupOrder
         /\ tasks[p].Id \in Keys(units[source[q]]))
        => \E r \in 1..(q - 1) : output[r].Id = tasks[p].Id

\* a was emitted from a higher-ranked unit it shares with its dependency,
\* and b later from the task-group unit, which holds a and b
C17_Witness ==
    /\ pc = "done"
    /\ \E p \in DOMAIN output : \E q \in DOMAIN output :
           /\ p < q
           /\ SameTaskGroup(output[p], output[q])
           /\ output[p].TaskGroupOrder < output[q].TaskGroupOrder
           /\ output[p].Id \in Keys(units[source[q]])
           /\ source[p] # source[q]


-----------------------------------------------------------------------------
(* Batches of two ungrouped tasks that differ in what the rank reads *)

PairKinds ==
    {[BaseTask EXCEPT !.Priority = p, !.Requester = r, !.ActivatedTime = a] :
        p \in {-3, 0, 2, 20},
        r \in {"gitter_request", "patch_request", "merge_test", "github_merge_request"},
        a \in {<<10>>, <<30>>, <<60>>}}

PairBatches ==
    {<<TaskOf(1, <<c1, FALSE>>), TaskOf(2, <<c2, FALSE>>)>> : c1 \in PairKinds, c2 \in PairKinds}

\* all factors 1, and the same with CommitQueueFactor = 10
PairSettings == {UnitFactors, [UnitFactors EXCEPT !.CommitQueueFactor = 10]}

InitPairs ==
    \E settings \in PairSettings, batch \in PairBatches :
        Start(settings, batch, 1, <<>>)

SpecPairs == InitPairs /\ [][Next]_vars


-----------------------------------------------------------------------------
(* C18, C19: ranks of two single-task units *)

\* the task of a unit that holds one task
OnlyTask(u) == units[u].tasks[CHOOSE id \in Keys(units[u]) : TRUE]

\* the plan holds the two batch tasks in a unit each, and the sort has
\* computed both ranks
TwoSingleTaskUnits ==
    /\ Scored
    /\ Len(tasks) = 2
    /\ Len(tpl) = 2
    /\ \A p \in 1..2 : Cardinality(Keys(units[tpl[p]])) = 1

TaskInMainline(t) == ~TaskInCommitQueue(t) /\ ~IsPatchRequester(t.Requester)

\* C18: of two single-task units whose tasks are identical (same Priority,
\* any sign, same time in queue, NumDependents and expected runtime) except
\* that one requester is commit queue or merge queue and the other
\* mainline, with CommitQueueFactor = 10 and every other factor 1, the
\* commit-queue unit has the strictly greater RankValue.
C18_CommitQueueOutranksMainline ==
    (TwoSingleTaskUnits /\ distro = [UnitFactors EXCEPT !.CommitQueueFactor = 10]) =>
        \A u \in PlanUnits : \A v \in PlanUnits :
            LET a == OnlyTask(u)
                b == OnlyTask(v)
            IN (/\ TaskInCommitQueue(a)
                /\ TaskInMainline(b)
                /\ [a EXCEPT !.Id = b.Id, !.Requester = b.Requester] = b)
               => RankValue(units[u], distro) > RankValue(units[v], distro)

\* C19: of two single-task patch units whose tasks are identical, with
\* Priority >= 0, except for their time in queue, with all factors 1, the
\* unit whose task has waited more whole minutes has the strictly greater
\* RankValue.
C19_PatchQueueAge ==
    (TwoSingleTaskUnits /\ distro = UnitFactors) =>
        \A u \in PlanUnits : \A v \in PlanUnits :
            LET a == OnlyTask(u)
                b == OnlyTask(v)
            IN (/\ TaskInPatch(a)
                /\ TaskInPatch(b)
                /\ a.Priority >= 0
                /\ [a EXCEPT !.Id = b.Id, !.ActivatedTime = b.ActivatedTime] = b
                /\ TaskTimeInQueue(a) > TaskTimeInQueue(b))
               => RankValue(units[u], distro) > RankValue(units[v], distro)

\* two patch tasks that waited 30 and 10 minutes are ranked 33 and 13, and
\* the older one is first in the output
C19_Witness ==
    /\ TwoSingleTaskUnits
    /\ pc = "done"
    /\ distro = UnitFactors
    /\ Len(output) = 2
    /\ TaskInPatch(output[1])
    /\ output[1].Priority = 0
    /\ [output[1] EXCEPT !.Id = output[2].Id, !.ActivatedTime = <<10>>] = output[2]
    /\ TaskTimeInQueue(output[1]) = 30
    /\ units[tpl[1]].cachedValue = 33
    /\ units[tpl[2]].cachedValue = 13


-----------------------------------------------------------------------------
(* C20: version grouping *)

\* the batch tasks the first loop has handled
Assembled == IF pc = "pass1" THEN 1..(i - 1) ELSE DOMAIN tasks

\* pass 1 has just ended
AfterPass1 == pc = "pass2" /\ i = 1

\* C20: with ShouldGroupVersions() true, the unit registered under a
\* version key holds every batch task of that version the first pass has
\* handled, task-group members and ungrouped tasks alike, during and after
\* pass 1; when pass 1 has ended and one of them is ungrouped, the unit's
\* snapshot has ContainsNonGroupTasks = true.
C20_VersionGrouping ==
    (pc # "unit" /\ ShouldGroupVersions(distro)) =>
        \A p \in Assembled :
            /\ tasks[p].Version \in DOMAIN cache
            /\ tasks[p].Id \in Keys(units[cache[tasks[p].Version]])
            /\ (AfterPass1 /\ tasks[p].TaskGroup = EmptyString) =>
                   Info(units[cache[tasks[p].Version]], distro).ContainsNonGroupTasks

\* after pass 1 a version unit holds a task-group member and an ungrouped
\* task of its version
C20_Witness ==
    /\ AfterPass1
    /\ ShouldGroupVersions(distro)
    /\ \E p \in DOMAIN tasks : \E q \in DOMAIN tasks :
           /\ tasks[p].TaskGroup # EmptyString
           /\ tasks[q].TaskGroup = EmptyString
           /\ tasks[p].Version = tasks[q].Version
           /\ {tasks[p].Id, tasks[q].Id} \subseteq Keys(units[cache[tasks[p].Version]])
           /\ Info(units[cache[tasks[p].Version]], distro).ContainsNonGroupTasks


-----------------------------------------------------------------------------
(* C21: units are read-only once identified or ranked *)

\* ID() or RankValue() has stored a value in the unit
Memoized(unit) == unit.id # EmptyString \/ unit.cachedValue # 0

\* no step changes the task map, the distro or the memoized values of a
\* unit that holds a memoized id or rank, and a step that stores an id or a
\* rank stores the value of the unit as it is
C21_NoWriteAfterMemo ==
    \/ units' = units
    \/ \A u \in 1..Len(units) :
           /\ Memoized(units[u]) =>
                  /\ u <= Len(units')
                  /\ units'[u].tasks = units[u].tasks
                  /\ units'[u].distro = units[u].distro
                  /\ units[u].id # EmptyString => units'[u].id = units[u].id
                  /\ units[u].cachedValue # 0 =>
                         units'[u].cachedValue = units[u].cachedValue
           /\ (u <= Len(units') /\ units'[u].id # units[u].id) =>
                  units'[u].id = Sha1Hex(WriteStrings(SortStrings(Keys(units'[u]))))
           /\ (u <= Len(units') /\ units'[u].cachedValue # units[u].cachedValue) =>
                  units'[u].cachedValue = Value(Info(units'[u], distro'))

\* when the call has ended, the memoized id and rank of every unit are the
\* ones computed from the unit as it is
C21_MemoCurrent ==
    pc = "done" =>
        \A u \in 1..Len(units) :
            /\ units[u].id # EmptyString =>
                   units[u].id = Sha1Hex(WriteStrings(SortStrings(Keys(units[u]))))
            /\ units[u].cachedValue # 0 =>
                   units[u].cachedValue = Value(Info(units[u], distro))

\* C21: in PrepareTasksForPlanning followed by TaskPlan.Export, no Unit.Add
\* or SetDistro is applied to a unit after its ID() or RankValue() has first
\* been computed, so the memoized id and cachedValue always equal the values
\* recomputed from the unit's task set.
C21_ReadOnlyOnceMemoized == []C21_MemoCurrent /\ [][C21_NoWriteAfterMemo]_vars

\* the call has ended with a ranked plan unit that took a second task in
\* the passes and is registered under two keys
C21_Witness ==
    /\ pc = "done"
    /\ \E p \in 1..Len(tpl) :
           /\ units[tpl[p]].id # EmptyString
           /\ units[tpl[p]].cachedValue > 0
           /\ Cardinality(Keys(units[tpl[p]])) >= 2
           /\ Cardinality({key \in DOMAIN cache : cache[key] = tpl[p]}) >= 2


-----------------------------------------------------------------------------
(* C22: the arguments of AddNew in the assembly pass *)

\* the AddNew call Create(id, t) makes in the state st, if any: the key, the
\* unit passed, the state at the call, and that the call is Create's own
CreateCalls(st, id, t) ==
    IF Exists(st, id) THEN <<>>
    ELSE <<[key |-> id, unit |-> Len(st.units) + 1,
            st |-> [st EXCEPT !.units = Append(@, NewUnit(t))], inCreate |-> TRUE]>>

\* the AddNew calls of AddWhen(cond, id, t): those of its Create
AddWhenCalls(st, cond, id, t) ==
    IF cond /\ ~Exists(st, id) THEN CreateCalls(st, id, t) ELSE <<>>

\* the AddNew calls of one iteration of the first loop, in order
AssembleCalls(st, settings, t) ==
    IF t.TaskGroup # EmptyString THEN
        LET c == Create(st, GetTaskGroupString(t), t)
            a == AddNew(c.st, t.Id, c.unit)
        IN CreateCalls(st, GetTaskGroupString(t), t)
           \o <<[key |-> t.Id, unit |-> c.unit, st |-> c.st, inCreate |-> FALSE]>>
           \o AddWhenCalls(a, ShouldGroupVersions(settings), t.Version, t)
    ELSE IF ShouldGroupVersions(settings) THEN
        LET c == Create(st, t.Version, t)
        IN CreateCalls(st, t.Version, t)
           \o <<[key |-> t.Id, unit |-> c.unit, st |-> c.st, inCreate |-> FALSE]>>
    ELSE CreateCalls(st, t.Id, t)

\* the unit is registered under no key of the state
Unregistered(st, u) == \A key \in DOMAIN st.cache : st.cache[key] # u

\* the first loop is about to handle tasks[i]
Assembling == pc = "pass1" /\ i <= Len(tasks)

\* C22 as stated: in the assembly pass the unit passed to every
\* UnitCache.AddNew call is a freshly created single-task unit that is not
\* registered under any other cache key.
C22_AddNewArgumentFresh ==
    Assembling =>
        LET calls1 == AssembleCalls(St, distro, tasks[i])
        IN \A n \in DOMAIN calls1 :
               /\ Cardinality(Keys(calls1[n].st.units[calls1[n].unit])) = 1
               /\ Unregistered(calls1[n].st, calls1[n].unit)

\* C22 amended: in the assembly pass every AddNew call is made with a key
\* the cache does not hold, so it binds the key and never merges; the unit
\* passed holds the task at hand; in the calls Create makes it is a new
\* single-task unit registered nowhere, and in the calls of the loop body
\* it is the unit Create returned, registered under the task-group or
\* version key.
C22_AddNewBindsNewKey ==
    Assembling =>
        LET t == tasks[i]
            calls1 == AssembleCalls(St, distro, t)
        IN \A n \in DOMAIN calls1 :
               LET call == calls1[n]
               IN /\ ~Exists(call.st, call.key)
                  /\ t.Id \in Keys(call.st.units[call.unit])
                  /\ call.inCreate =>
                         /\ Keys(call.st.units[call.unit]) = {t.Id}
                         /\ Unregistered(call.st, call.unit)
                  /\ ~call.inCreate =>
                         \E key \in {GetTaskGroupString(t), t.Version} :
                             /\ Exists(call.st, key)
                             /\ call.st.cache[key] = call.unit

\* the loop body is about to pass the task-group unit, which holds an
\* earlier member and the task at hand, to AddNew under the task's id
C22_Witness ==
    /\ Assembling
    /\ \E n \in DOMAIN AssembleCalls(St, distro, tasks[i]) :
           LET call == AssembleCalls(St, distro, tasks[i])[n]
           IN /\ ~call.inCreate
              /\ call.key = tasks[i].Id
              /\ Cardinality(Keys(call.st.units[call.unit])) = 2
              /\ Exists(call.st, GetTaskGroupString(tasks[i]))
              /\ call.st.cache[GetTaskGroupString(tasks[i])] = call.unit


-----------------------------------------------------------------------------
(* C23: Unit.ID per task set *)

\* C23: with SHA-1 taken as injective, two units return the same ID() only
\* if they hold the same set of task ids, so UnitCache.Export, with no
\* nil-distro unit in the cache, never drops a unit whose task set differs
\* from that of every unit of the plan.
C23_IdUniquePerTaskSet ==
    (pc \in {"export", "sort"} /\ ~ShouldGroupVersions(distro)) =>
        /\ \A u \in 1..Len(units) : \A v \in 1..Len(units) :
               UnitID(units[u]) = UnitID(units[v]) => Keys(units[u]) = Keys(units[v])
        /\ \A key \in walked :
               units[cache[key]].distro # NilDistro =>
                   \E p \in 1..Len(tpl) : Keys(units[tpl[p]]) = Keys(units[cache[key]])

====
